---- MODULE Spec2Model ----
(***************************************************************************)
(* Model of the tic-tac-toe contract: the game engine of src/game.rs and   *)
(* the session handlers (invite / accept / reject / play) and queries of   *)
(* src/contract.rs over the GAMES map of src/state.rs.                     *)
(*                                                                         *)
(* Every handler is a pure operator from (store, message) to               *)
(* (store, result), translated statement by statement; an action applies   *)
(* one handler to the current store and records what the invocation        *)
(* returned in `resp`.                                                     *)
(*                                                                         *)
(* `engine` holds one Game driven directly through the engine's public     *)
(* functions (Game::new, play, winner, is_over), without the contract; the *)
(* contract's specifications leave it alone.                               *)
(***************************************************************************)
EXTENDS Integers, Sequences, FiniteSets, TLC

VARIABLES GAMES, resp, engine

vars == <<GAMES, resp, engine>>

(***************************************************************************)
(* Bounds of the model.                                                    *)
(***************************************************************************)
\* Spec: Play is issued with the cell indices 0..ShortCell (rounds end by the
\* triples 0-1-2 and 3-4-5 only), and a session starts at most MaxRounds rounds.
ShortCell == 5
MaxRounds == 2
\* SpecRound: Play is issued with every cell index 0..MaxCell (the board has 9
\* cells, so MaxCell is out of range), and a session starts at most RoundLimit
\* rounds.
MaxCell == 9
RoundLimit == 1
\* Number of sessions the store may hold.
MaxSessions == 1

\* With several sessions (SpecPairs), rounds are played on the cells 0..PairCell.
PairCell == 1

\* The principals that send messages (the addresses of the repository's tests).
Identity == {"host", "guest", "sender"}

\* The invitations that are sent: the two of the repository's tests (the host
\* of the first pair plays X, the host of the second plays O) and one that a
\* principal sends to itself.
InvitePairs == {<<"host", "guest">>, <<"sender", "guest">>, <<"guest", "guest">>}

(***************************************************************************)
(* src/game.rs                                                             *)
(***************************************************************************)
X == "X"
O == "O"
None == "None"

Player == {X, O, None}

BOARD_LEN == 9

\* faulty variant of WINNING_COMBINATIONS: the second diagonal is mistyped
WINNING_COMBINATIONS_mistyped ==
    << <<0, 1, 2>>, <<3, 4, 5>>, <<6, 7, 8>>,
       <<0, 3, 6>>, <<1, 4, 7>>, <<2, 5, 8>>,
       <<0, 4, 8>>, <<2, 4, 7>> >>

WINNING_COMBINATIONS ==
    << <<0, 1, 2>>, <<3, 4, 5>>, <<6, 7, 8>>,
       <<0, 3, 6>>, <<1, 4, 7>>, <<2, 5, 8>>,
       <<0, 4, 8>>, <<2, 4, 6>> >>

\* self.board[i] with the source's 0-based index
At(board, i) == board[i + 1]

\* faulty variant of Game_new: O moves first
Game_new_turn_o == [board |-> [i \in 1..BOARD_LEN |-> None], turn |-> O]

Game_new == [board |-> [i \in 1..BOARD_LEN |-> None], turn |-> X]

\* GameError values and the Ok(()) of Game::play
NotYourTurn == [tag |-> "NotYourTurn", cell |-> <<>>]
InvalidMove(index) == [tag |-> "InvalidMove", cell |-> <<index>>]
GameOk == [tag |-> "Ok", cell |-> <<>>]

\* faulty variant of Game_play: the turn is not checked
Game_play_no_turn_check(self, player, index) ==
    IF ~(index \in 0..(BOARD_LEN - 1) /\ At(self.board, index) = None)
    THEN [res |-> InvalidMove(index), self |-> self]
    ELSE [res |-> GameOk,
          self |-> [board |-> [self.board EXCEPT ![index + 1] = player],
                    turn |-> CASE player = X -> O
                               [] player = O -> X
                               [] OTHER -> None]]

\* faulty variant of Game::play: the turn is not switched
Game_play_keeps_turn(self, player, index) ==
    IF self.turn # player
    THEN [res |-> NotYourTurn, self |-> self]
    ELSE IF ~(index \in 0..(BOARD_LEN - 1) /\ At(self.board, index) = None)
    THEN [res |-> InvalidMove(index), self |-> self]
    ELSE [res |-> GameOk,
          self |-> [board |-> [self.board EXCEPT ![index + 1] = player],
                    turn |-> self.turn]]

\* faulty variant of Game::play: an occupied cell is overwritten
Game_play_overwrites(self, player, index) ==
    IF self.turn # player
    THEN [res |-> NotYourTurn, self |-> self]
    ELSE IF ~(index \in 0..(BOARD_LEN - 1))
    THEN [res |-> InvalidMove(index), self |-> self]
    ELSE [res |-> GameOk,
          self |-> [board |-> [self.board EXCEPT ![index + 1] = player],
                    turn |-> CASE player = X -> O
                               [] player = O -> X
                               [] OTHER -> None]]

\* faulty variant of Game::play: the cell is validated before the turn
Game_play_cell_first(self, player, index) ==
    IF ~(index \in 0..(BOARD_LEN - 1) /\ At(self.board, index) = None)
    THEN [res |-> InvalidMove(index), self |-> self]
    ELSE IF self.turn # player
    THEN [res |-> NotYourTurn, self |-> self]
    ELSE [res |-> GameOk,
          self |-> [board |-> [self.board EXCEPT ![index + 1] = player],
                    turn |-> CASE player = X -> O
                               [] player = O -> X
                               [] OTHER -> None]]

\* Game::play(&mut self, player, index): `self` is the game after the call
\* (unchanged on the error returns, which precede every assignment).
Game_play(self, player, index) ==
    IF self.turn # player
    THEN [res |-> NotYourTurn, self |-> self]
    ELSE IF ~(index \in 0..(BOARD_LEN - 1) /\ At(self.board, index) = None)
    THEN [res |-> InvalidMove(index), self |-> self]
    ELSE [res |-> GameOk,
          self |-> [board |-> [self.board EXCEPT ![index + 1] = player],
                    turn |-> CASE player = X -> O
                               [] player = O -> X
                               [] OTHER -> None]]

\* faulty variant of Wins: one cell of the combination is enough
Wins_any(self, c) ==
    LET comb == WINNING_COMBINATIONS[c]
        player == At(self.board, comb[1])
    IN  player # None /\ \E k \in 1..3 : At(self.board, comb[k]) = player

\* does combination number c hold three equal non-None symbols
Wins(self, c) ==
    LET comb == WINNING_COMBINATIONS[c]
        player == At(self.board, comb[1])
    IN  player # None /\ \A k \in 1..3 : At(self.board, comb[k]) = player

\* faulty variant of Game::winner: it reports the symbol on turn
Game_winner_reports_turn(self) ==
    IF \E c \in 1..Len(WINNING_COMBINATIONS) : Wins(self, c)
    THEN <<self.turn>>
    ELSE <<>>

\* Game::winner: the symbol of the first matching combination, <<>> for None
Game_winner(self) ==
    IF \E c \in 1..Len(WINNING_COMBINATIONS) : Wins(self, c)
    THEN LET first == CHOOSE c \in 1..Len(WINNING_COMBINATIONS) :
                          Wins(self, c) /\ \A d \in 1..(c - 1) : ~Wins(self, d)
         IN  <<At(self.board, WINNING_COMBINATIONS[first][1])>>
    ELSE <<>>

\* faulty variant of Game_is_over: a full board does not end the game
Game_is_over_winner_only(self) == Game_winner(self) # <<>>

Game_is_over(self) ==
    Game_winner(self) # <<>> \/ \A i \in 1..BOARD_LEN : self.board[i] # None

(***************************************************************************)
(* src/state.rs, src/error.rs: the store and what an invocation returns    *)
(***************************************************************************)
\* Option<Game>: <<>> is None, <<g>> is Some(g)
NoGame == <<>>
Some(g) == <<g>>

\* the Games record of src/state.rs
MkGames(pending, host, current, completed) ==
    [pending_invition |-> pending, host |-> host,
     current |-> current, completed |-> completed]

EmptyStore == [k \in {} |-> MkGames(FALSE, None, NoGame, <<>>)]

\* faulty variant of Save: the key is taken as an unordered pair, so that the
\* session of the reversed pair, when stored, is written too
Save_unordered(store, key, value) ==
    [k \in (DOMAIN store) \cup {key} |->
        IF k = key \/ k = <<key[2], key[1]>> THEN value ELSE store[k]]

\* GAMES.save(storage, key, value)
Save(store, key, value) ==
    [k \in (DOMAIN store) \cup {key} |-> IF k = key THEN value ELSE store[k]]

\* What an invocation returns: a ContractError (tag names the variant) or a
\* Response (tag "Ok") with its attributes; a field that the variant does not
\* carry is "" (cell: <<>>).
Result(tag, action, host, guest, player, cell) ==
    [tag |-> tag, action |-> action, host |-> host, guest |-> guest,
     player |-> player, cell |-> cell]

\* StdError::NotFound of GAMES.load
NotFound == Result("NotFound", "", "", "", "", <<>>)
GameInProgress(host, guest) == Result("GameInProgress", "", host, guest, "", <<>>)
NoPendingInvitation(host, guest) ==
    Result("NoPendingInvitation", "", host, guest, "", <<>>)
NoGameInProgress(host, guest) ==
    Result("NoGameInProgress", "", host, guest, "", <<>>)
NotInvolved(host, guest, player) ==
    Result("NotInvolved", "", host, guest, player, <<>>)
\* ContractError::GameError(#[from] GameError)
FromGameError(e) == Result(e.tag, "", "", "", "", e.cell)
\* Response::default().add_attribute(...)
Response(action, host, guest, cell) == Result("Ok", action, host, guest, "", cell)

IsErr(r) == r.tag # "Ok"

\* what a handler hands back: the store after the call and the result
Out(store, res) == [store |-> store, res |-> res]

(***************************************************************************)
(* src/contract.rs, mod exec                                               *)
(***************************************************************************)
\* hasher.finish().to_string() of DefaultHasher (SipHash-1-3, zero keys) over
\* the concatenation host ++ guest: the decimal digits of the 64-bit hash.
HashString(host_addr, guest_addr) ==
    CASE <<host_addr, guest_addr>> = <<"host", "host">> ->
           <<1,4,1,2,5,8,6,0,4,9,7,8,9,3,3,3,2,5,5,0>>
      [] <<host_addr, guest_addr>> = <<"host", "guest">> ->
           <<5,2,8,3,1,9,6,2,5,2,5,1,9,1,2,0,1,9,5>>
      [] <<host_addr, guest_addr>> = <<"host", "sender">> ->
           <<1,2,6,4,8,5,9,3,0,7,0,8,7,0,9,1,3,8,5,0>>
      [] <<host_addr, guest_addr>> = <<"guest", "host">> ->
           <<5,9,2,0,1,2,6,5,7,3,7,5,9,4,3,6,3,7,1>>
      [] <<host_addr, guest_addr>> = <<"guest", "guest">> ->
           <<1,1,8,0,3,0,4,6,7,7,6,9,9,3,1,1,6,1,9,8>>
      [] <<host_addr, guest_addr>> = <<"guest", "sender">> ->
           <<7,8,5,8,8,1,4,1,8,2,5,1,8,5,5,0,8,4,7>>
      [] <<host_addr, guest_addr>> = <<"sender", "host">> ->
           <<9,5,7,3,7,5,3,2,4,1,9,6,5,6,6,6,2,6,6>>
      [] <<host_addr, guest_addr>> = <<"sender", "guest">> ->
           <<6,1,7,4,2,2,7,6,6,7,1,1,8,7,6,9,8,6,4>>
      [] <<host_addr, guest_addr>> = <<"sender", "sender">> ->
           <<3,6,1,4,0,2,5,1,7,1,6,5,4,0,6,6,8,3,9>>

ASCII_ZERO == 48

\* hash.as_bytes()[0] & 1
FirstBit(hash) == (ASCII_ZERO + hash[1]) % 2

\* faulty variant of get_host_role: the byte is not masked to its low bit
get_host_role_no_mask(host_addr, guest_addr) ==
    LET hash == HashString(host_addr, guest_addr)
        first_byte == ASCII_ZERO + hash[1]
    IN  IF first_byte = 0 THEN O ELSE IF first_byte = 1 THEN X ELSE None

\* faulty variant of get_host_role: the two symbols are exchanged
get_host_role_zero_is_x(host_addr, guest_addr) ==
    LET hash == HashString(host_addr, guest_addr)
        first_bit == FirstBit(hash)
    IN  IF first_bit = 0 THEN X ELSE O

get_host_role(host_addr, guest_addr) ==
    LET hash == HashString(host_addr, guest_addr)
        first_bit == FirstBit(hash)
    IN  IF first_bit = 0 THEN O ELSE X

\* the complement computed in exec::play and in both queries
GuestRole(host) == IF host = O THEN X ELSE O

\* faulty variant of exec_invite: no check for a game in progress
exec_invite_no_ensure(store, sender, guest_addr) ==
    LET key == <<sender, guest_addr>> IN
    IF key \in DOMAIN store
    THEN Out(Save(store, key, [store[key] EXCEPT !.pending_invition = TRUE]),
             Response("invite", sender, guest_addr, <<>>))
    ELSE Out(Save(store, key,
                  MkGames(TRUE, get_host_role(sender, guest_addr), NoGame, <<>>)),
             Response("invite", sender, guest_addr, <<>>))

\* faulty variant of exec_invite: every invitation stores a fresh record
exec_invite_fresh(store, sender, guest_addr) ==
    LET key == <<sender, guest_addr>> IN
    IF key \in DOMAIN store /\ store[key].current # NoGame
    THEN Out(store, GameInProgress(sender, guest_addr))
    ELSE Out(Save(store, key,
                  MkGames(TRUE, get_host_role(sender, guest_addr), NoGame, <<>>)),
             Response("invite", sender, guest_addr, <<>>))

\* faulty variant of exec_invite: a new invitation swaps the two symbols
exec_invite_swaps_role(store, sender, guest_addr) ==
    LET key == <<sender, guest_addr>> IN
    IF key \in DOMAIN store
    THEN IF store[key].current # NoGame
         THEN Out(store, GameInProgress(sender, guest_addr))
         ELSE Out(Save(store, key, [store[key] EXCEPT !.pending_invition = TRUE,
                                                       !.host = GuestRole(@)]),
                  Response("invite", sender, guest_addr, <<>>))
    ELSE Out(Save(store, key,
                  MkGames(TRUE, get_host_role(sender, guest_addr), NoGame, <<>>)),
             Response("invite", sender, guest_addr, <<>>))

\* faulty variant of exec_invite: the record is saved before the check
exec_invite_saves_first(store, sender, guest_addr) ==
    LET key == <<sender, guest_addr>> IN
    IF key \in DOMAIN store
    THEN LET saved == Save(store, key, [store[key] EXCEPT !.pending_invition = TRUE])
         IN  IF store[key].current # NoGame
             THEN Out(saved, GameInProgress(sender, guest_addr))
             ELSE Out(saved, Response("invite", sender, guest_addr, <<>>))
    ELSE Out(Save(store, key,
                  MkGames(TRUE, get_host_role(sender, guest_addr), NoGame, <<>>)),
             Response("invite", sender, guest_addr, <<>>))

\* faulty variant of exec_invite: the host symbol alternates with the number
\* of sessions already stored
exec_invite_alternates(store, sender, guest_addr) ==
    LET key == <<sender, guest_addr>> IN
    IF key \in DOMAIN store
    THEN IF store[key].current # NoGame
         THEN Out(store, GameInProgress(sender, guest_addr))
         ELSE Out(Save(store, key, [store[key] EXCEPT !.pending_invition = TRUE]),
                  Response("invite", sender, guest_addr, <<>>))
    ELSE Out(Save(store, key,
                  MkGames(TRUE,
                          IF Cardinality(DOMAIN store) % 2 = 0 THEN X ELSE O,
                          NoGame, <<>>)),
             Response("invite", sender, guest_addr, <<>>))

exec_invite(store, sender, guest_addr) ==
    LET key == <<sender, guest_addr>> IN
    IF key \in DOMAIN store
    THEN IF store[key].current # NoGame
         THEN Out(store, GameInProgress(sender, guest_addr))
         ELSE Out(Save(store, key, [store[key] EXCEPT !.pending_invition = TRUE]),
                  Response("invite", sender, guest_addr, <<>>))
    ELSE Out(Save(store, key,
                  MkGames(TRUE, get_host_role(sender, guest_addr), NoGame, <<>>)),
             Response("invite", sender, guest_addr, <<>>))

\* faulty variant of exec_accept: pending_invition is not cleared
exec_accept_keeps_pending(store, sender, host_addr) ==
    LET key == <<host_addr, sender>> IN
    IF key \notin DOMAIN store
    THEN Out(store, NotFound)
    ELSE IF ~store[key].pending_invition
    THEN Out(store, NoPendingInvitation(host_addr, sender))
    ELSE Out(Save(store, key, [store[key] EXCEPT !.current = Some(Game_new)]),
             Response("accept invitation", host_addr, sender, <<>>))

\* faulty variant of exec_accept: no check for a pending invitation
exec_accept_no_ensure(store, sender, host_addr) ==
    LET key == <<host_addr, sender>> IN
    IF key \notin DOMAIN store
    THEN Out(store, NotFound)
    ELSE Out(Save(store, key, [store[key] EXCEPT !.pending_invition = FALSE,
                                                  !.current = Some(Game_new)]),
             Response("accept invitation", host_addr, sender, <<>>))

\* faulty variant of exec_accept: when the caller is not the guest of the named
\* host, the session in which the caller is the host is taken
exec_accept_either_party(store, sender, host_addr) ==
    LET key == IF <<host_addr, sender>> \in DOMAIN store
               THEN <<host_addr, sender>> ELSE <<sender, host_addr>> IN
    IF key \notin DOMAIN store
    THEN Out(store, NotFound)
    ELSE IF ~store[key].pending_invition
    THEN Out(store, NoPendingInvitation(host_addr, sender))
    ELSE Out(Save(store, key, [store[key] EXCEPT !.pending_invition = FALSE,
                                                  !.current = Some(Game_new)]),
             Response("accept invitation", host_addr, sender, <<>>))

\* faulty variant of exec_accept: an absent session is created on the spot
exec_accept_upsert(store, sender, host_addr) ==
    LET key == <<host_addr, sender>> IN
    IF key \notin DOMAIN store
    THEN Out(Save(store, key, MkGames(FALSE, get_host_role(host_addr, sender),
                                      Some(Game_new), <<>>)),
             Response("accept invitation", host_addr, sender, <<>>))
    ELSE IF ~store[key].pending_invition
    THEN Out(store, NoPendingInvitation(host_addr, sender))
    ELSE Out(Save(store, key, [store[key] EXCEPT !.pending_invition = FALSE,
                                                  !.current = Some(Game_new)]),
             Response("accept invitation", host_addr, sender, <<>>))

exec_accept(store, sender, host_addr) ==
    LET key == <<host_addr, sender>> IN
    IF key \notin DOMAIN store
    THEN Out(store, NotFound)
    ELSE IF ~store[key].pending_invition
    THEN Out(store, NoPendingInvitation(host_addr, sender))
    ELSE Out(Save(store, key, [store[key] EXCEPT !.pending_invition = FALSE,
                                                  !.current = Some(Game_new)]),
             Response("accept invitation", host_addr, sender, <<>>))

\* faulty variant of exec_reject: no check for a pending invitation
exec_reject_no_ensure(store, sender, host_addr) ==
    LET key == <<host_addr, sender>> IN
    IF key \notin DOMAIN store
    THEN Out(store, NotFound)
    ELSE Out(Save(store, key, [store[key] EXCEPT !.pending_invition = FALSE]),
             Response("reject invitation", host_addr, sender, <<>>))

\* faulty variant of exec_reject: the response names the caller as host
exec_reject_caller_as_host(store, sender, host_addr) ==
    LET key == <<host_addr, sender>> IN
    IF key \notin DOMAIN store
    THEN Out(store, NotFound)
    ELSE IF ~store[key].pending_invition
    THEN Out(store, NoPendingInvitation(host_addr, sender))
    ELSE Out(Save(store, key, [store[key] EXCEPT !.pending_invition = FALSE]),
             Response("reject invitation", sender, host_addr, <<>>))

\* faulty variant of exec_reject: it starts a round, as accept does
exec_reject_creates_round(store, sender, host_addr) ==
    LET key == <<host_addr, sender>> IN
    IF key \notin DOMAIN store
    THEN Out(store, NotFound)
    ELSE IF ~store[key].pending_invition
    THEN Out(store, NoPendingInvitation(host_addr, sender))
    ELSE Out(Save(store, key, [store[key] EXCEPT !.pending_invition = FALSE,
                                                  !.current = Some(Game_new)]),
             Response("reject invitation", host_addr, sender, <<>>))

exec_reject(store, sender, host_addr) ==
    LET key == <<host_addr, sender>> IN
    IF key \notin DOMAIN store
    THEN Out(store, NotFound)
    ELSE IF ~store[key].pending_invition
    THEN Out(store, NoPendingInvitation(host_addr, sender))
    ELSE Out(Save(store, key, [store[key] EXCEPT !.pending_invition = FALSE]),
             Response("reject invitation", host_addr, sender, <<>>))

\* the symbol exec::play resolves for the caller; <<>> when it is neither party
\* faulty variant of PlayerOf: the host always plays X and the guest O
PlayerOf_host_is_x(games, sender, host_addr, guest_addr) ==
    IF sender = host_addr THEN <<X>>
    ELSE IF sender = guest_addr THEN <<O>>
    ELSE <<>>

\* faulty variant of PlayerOf: every caller but the host plays as the guest
PlayerOf_any_guest(games, sender, host_addr, guest_addr) ==
    IF sender = host_addr THEN <<games.host>>
    ELSE <<GuestRole(games.host)>>

PlayerOf(games, sender, host_addr, guest_addr) ==
    IF sender = host_addr THEN <<games.host>>
    ELSE IF sender = guest_addr THEN <<GuestRole(games.host)>>
    ELSE <<>>

\* faulty variant of exec_play: a finished round replaces the history
exec_play_overwrites_history(store, sender, host_addr, guest_addr, cell) ==
    LET key == <<host_addr, guest_addr>> IN
    IF key \notin DOMAIN store
    THEN Out(store, NotFound)
    ELSE LET games == store[key] IN
    IF games.current = NoGame
    THEN Out(store, NoGameInProgress(host_addr, guest_addr))
    ELSE LET player == PlayerOf(games, sender, host_addr, guest_addr) IN
    IF player = <<>>
    THEN Out(store, NotInvolved(host_addr, guest_addr, sender))
    ELSE LET played == Game_play(games.current[1], player[1], cell) IN
    IF played.res # GameOk
    THEN Out(store, FromGameError(played.res))
    ELSE LET game == played.self
             after == IF Game_is_over(game)
                      THEN [games EXCEPT !.completed = <<game>>,
                                         !.current = NoGame]
                      ELSE [games EXCEPT !.current = Some(game)]
         IN  Out(Save(store, key, after),
                 Response("play", host_addr, guest_addr, <<cell>>))

\* faulty variant of exec_play: a finished round stays the current round
exec_play_keeps_current(store, sender, host_addr, guest_addr, cell) ==
    LET key == <<host_addr, guest_addr>> IN
    IF key \notin DOMAIN store
    THEN Out(store, NotFound)
    ELSE LET games == store[key] IN
    IF games.current = NoGame
    THEN Out(store, NoGameInProgress(host_addr, guest_addr))
    ELSE LET player == PlayerOf(games, sender, host_addr, guest_addr) IN
    IF player = <<>>
    THEN Out(store, NotInvolved(host_addr, guest_addr, sender))
    ELSE LET played == Game_play(games.current[1], player[1], cell) IN
    IF played.res # GameOk
    THEN Out(store, FromGameError(played.res))
    ELSE LET game == played.self
             after == IF Game_is_over(game)
                      THEN [games EXCEPT !.completed = Append(@, game),
                                         !.current = Some(game)]
                      ELSE [games EXCEPT !.current = Some(game)]
         IN  Out(Save(store, key, after),
                 Response("play", host_addr, guest_addr, <<cell>>))

\* faulty variant of exec_play: the caller is resolved before the round is looked up
exec_play_involved_first(store, sender, host_addr, guest_addr, cell) ==
    LET key == <<host_addr, guest_addr>> IN
    IF key \notin DOMAIN store
    THEN Out(store, NotFound)
    ELSE LET games == store[key]
             player == PlayerOf(games, sender, host_addr, guest_addr) IN
    IF player = <<>>
    THEN Out(store, NotInvolved(host_addr, guest_addr, sender))
    ELSE IF games.current = NoGame
    THEN Out(store, NoGameInProgress(host_addr, guest_addr))
    ELSE LET played == Game_play(games.current[1], player[1], cell) IN
    IF played.res # GameOk
    THEN Out(store, FromGameError(played.res))
    ELSE LET game == played.self
             after == IF Game_is_over(game)
                      THEN [games EXCEPT !.completed = Append(@, game),
                                         !.current = NoGame]
                      ELSE [games EXCEPT !.current = Some(game)]
         IN  Out(Save(store, key, after),
                 Response("play", host_addr, guest_addr, <<cell>>))

exec_play(store, sender, host_addr, guest_addr, cell) ==
    LET key == <<host_addr, guest_addr>> IN
    IF key \notin DOMAIN store
    THEN Out(store, NotFound)
    ELSE LET games == store[key] IN
    IF games.current = NoGame
    THEN Out(store, NoGameInProgress(host_addr, guest_addr))
    ELSE LET player == PlayerOf(games, sender, host_addr, guest_addr) IN
    IF player = <<>>
    THEN Out(store, NotInvolved(host_addr, guest_addr, sender))
    ELSE LET played == Game_play(games.current[1], player[1], cell) IN
    IF played.res # GameOk
    THEN Out(store, FromGameError(played.res))
    ELSE LET game == played.self
             after == IF Game_is_over(game)
                      THEN [games EXCEPT !.completed = Append(@, game),
                                         !.current = NoGame]
                      ELSE [games EXCEPT !.current = Some(game)]
         IN  Out(Save(store, key, after),
                 Response("play", host_addr, guest_addr, <<cell>>))

(***************************************************************************)
(* src/contract.rs, mod query                                              *)
(***************************************************************************)
\* faulty variant of GamesInfo: the guest is given the host's symbol
GamesInfo_same_role(host, guest, value) ==
    [host |-> host, guest |-> guest,
     host_role |-> value.host,
     guest_role |-> value.host,
     pending_invitation |-> value.pending_invition,
     current_game |-> value.current,
     completed_games |-> value.completed]

GamesInfo(host, guest, value) ==
    [host |-> host, guest |-> guest,
     host_role |-> value.host,
     guest_role |-> GuestRole(value.host),
     pending_invitation |-> value.pending_invition,
     current_game |-> value.current,
     completed_games |-> value.completed]

\* The bytes of the identities (ASCII), as Addr::as_bytes gives them to the
\* storage key.
Bytes(addr) ==
    CASE addr = "host"   -> <<104, 111, 115, 116>>
      [] addr = "guest"  -> <<103, 117, 101, 115, 116>>
      [] addr = "sender" -> <<115, 101, 110, 100, 101, 114>>

\* The storage key of Map<(&Addr, &Addr), _> under its namespace: the first
\* component is prefixed by its length on two bytes (big-endian), the last
\* component follows bare.
StorageKey(key) ==
    <<Len(Bytes(key[1])) \div 256, Len(Bytes(key[1])) % 256>>
        \o Bytes(key[1]) \o Bytes(key[2])

\* the order of the storage on its keys: byte strings, lexicographic
BytesLess(a, b) ==
    \E i \in 1..(Len(a) + 1) :
        /\ i <= Len(b)
        /\ \A j \in 1..(i - 1) : a[j] = b[j]
        /\ i = Len(a) + 1 \/ a[i] < b[i]

\* GAMES.range(storage, None, None, Order::Ascending) mapped to GamesInfo
RECURSIVE RangeAscending(_, _)
RangeAscending(store, keys) ==
    IF keys = {} THEN <<>>
    ELSE LET first == CHOOSE k \in keys :
                          \A j \in keys \ {k} : BytesLess(StorageKey(k), StorageKey(j))
         IN  <<GamesInfo(first[1], first[2], store[first])>>
                 \o RangeAscending(store, keys \ {first})

\* query::games: <<>> for the NotFound of GAMES.load, else <<GamesResponse.info>>
query_games(store, host_addr, guest_addr) ==
    IF <<host_addr, guest_addr>> \in DOMAIN store
    THEN <<GamesInfo(host_addr, guest_addr, store[<<host_addr, guest_addr>>])>>
    ELSE <<>>

\* faulty variant of all_games_list: sessions with a pending invitation are left out
all_games_list_started_only(store) ==
    RangeAscending(store, {k \in DOMAIN store : ~store[k].pending_invition})

\* query::all_games_list: AllGamesListResponse.games
all_games_list(store) == RangeAscending(store, DOMAIN store)

(***************************************************************************)
(* The state machine: execute() dispatches one message per step.           *)
(***************************************************************************)
\* The engine's Game and what the last call on it returned: `op` names the
\* call, `res` is the Result of play, `winner` and `over` are the values of
\* winner() and is_over(); `overrun` remembers that some successful play was
\* applied to a game that was already over.
EngineAt(game, op, res, winner, over, overrun) ==
    [game |-> game, op |-> op, res |-> res, winner |-> winner, over |-> over,
     overrun |-> overrun]

\* Game::new()
EngineNew == EngineAt(Game_new, "new", GameOk, <<>>, FALSE, FALSE)

\* instantiate(): nothing stored
Init ==
    /\ GAMES = EmptyStore
    /\ resp = Response("instantiate", "", "", <<>>)
    /\ engine = EngineNew

Apply(out) ==
    /\ GAMES' = out.store
    /\ resp' = out.res
    /\ UNCHANGED engine

\* ExecuteMsg::Invite { guest } sent by `sender`
Invite(sender, guest) ==
    /\ <<sender, guest>> \in DOMAIN GAMES \/ Cardinality(DOMAIN GAMES) < MaxSessions
    /\ Apply(exec_invite(GAMES, sender, guest))

\* ExecuteMsg::Accept { host } sent by `sender`
Accept(sender, host, rounds) ==
    /\ <<host, sender>> \in DOMAIN GAMES =>
           \/ ~GAMES[<<host, sender>>].pending_invition
           \/ Len(GAMES[<<host, sender>>].completed) < rounds
    /\ Apply(exec_accept(GAMES, sender, host))

\* ExecuteMsg::Reject { host } sent by `sender`
Reject(sender, host) ==
    Apply(exec_reject(GAMES, sender, host))

\* ExecuteMsg::Play { host, guest, cell } sent by `sender`
Play(sender, host, guest, cell) ==
    Apply(exec_play(GAMES, sender, host, guest, cell))

InviteStep(pairs) == \E p \in pairs : Invite(p[1], p[2])
AcceptStep(rounds) ==
    \E sender \in Identity, host \in Identity : Accept(sender, host, rounds)
RejectStep == \E sender \in Identity, host \in Identity : Reject(sender, host)
PlayStep(cells) ==
    \E sender \in Identity, host \in Identity, guest \in Identity, cell \in cells :
        Play(sender, host, guest, cell)

\* short rounds, several rounds a session
Next ==
    \/ InviteStep(InvitePairs)
    \/ AcceptStep(MaxRounds)
    \/ RejectStep
    \/ PlayStep(0..ShortCell)

Spec == Init /\ [][Next]_vars

\* one round on the whole board
NextRound ==
    \/ InviteStep(InvitePairs)
    \/ AcceptStep(RoundLimit)
    \/ RejectStep
    \/ PlayStep(0..MaxCell)

SpecRound == Init /\ [][NextRound]_vars

(***************************************************************************)
(* Helpers of the properties                                               *)
(***************************************************************************)
Keys == DOMAIN GAMES

\* number of occupied cells of a board
Stones(board) == Cardinality({i \in 1..BOARD_LEN : board[i] # None})

IsPrefix(s, t) == Len(s) <= Len(t) /\ \A i \in 1..Len(s) : s[i] = t[i]

Complement(symbol) == IF symbol = X THEN O ELSE X

\* the empty round of the specification: nine empty cells, X to move
EmptyRound == [board |-> <<None, None, None, None, None, None, None, None, None>>,
               turn |-> X]

\* the eight triples, written out from the 3x3 grid (0-based cells)
Triples ==
    {{3 * r, 3 * r + 1, 3 * r + 2} : r \in 0..2}
        \cup {{c, c + 3, c + 6} : c \in 0..2}
        \cup {{0, 4, 8}, {2, 4, 6}}

HasTriple(board) ==
    \E t \in Triples : \E symbol \in {X, O} : \A i \in t : At(board, i) = symbol

Terminal(board) == HasTriple(board) \/ \A i \in 1..BOARD_LEN : board[i] # None

\* the step just taken was a successful Play
PlayedOk == resp'.tag = "Ok" /\ resp'.action = "play"

(***************************************************************************)
(* The engine alone: src/game.rs called without the contract.              *)
(***************************************************************************)
\* game.play(player, index)
EnginePlay(player, index) ==
    /\ LET played == Game_play(engine.game, player, index) IN
       engine' = EngineAt(played.self, "play", played.res, <<>>, FALSE,
                          \/ engine.overrun
                          \/ played.res = GameOk /\ Terminal(engine.game.board))
    /\ UNCHANGED <<GAMES, resp>>

\* game.winner() and game.is_over()
EngineJudge ==
    /\ engine' = [engine EXCEPT !.op = "judge",
                                !.winner = Game_winner(engine.game),
                                !.over = Game_is_over(engine.game)]
    /\ UNCHANGED <<GAMES, resp>>

EnginePlayStep == \E player \in Player, index \in 0..MaxCell : EnginePlay(player, index)

\* any sequence of calls on a new game
NextEngine == EnginePlayStep \/ EngineJudge

SpecEngine == Init /\ [][NextEngine]_vars

\* every board of nine cells, as a stored Game can be deserialized
AllBoards == [1..BOARD_LEN -> Player]

InitBoards ==
    /\ GAMES = EmptyStore
    /\ resp = Response("instantiate", "", "", <<>>)
    /\ \E board \in AllBoards, turn \in {X, O} :
           engine = EngineAt([board |-> board, turn |-> turn], "new", GameOk,
                             <<>>, FALSE, FALSE)

NextBoards == EngineJudge

\* winner() and is_over() applied to every board
SpecBoards == InitBoards /\ [][NextBoards]_vars

(***************************************************************************)
(* Several sessions at once, with the queries: the pair (host, guest), its *)
(* reverse, and a second session of the same host.  Rounds are played on   *)
(* the cells 0..PairCell and stay active.                                  *)
(***************************************************************************)
PairKeys == {<<"host", "guest">>, <<"guest", "host">>, <<"host", "sender">>}

InvitePair == \E p \in PairKeys : Apply(exec_invite(GAMES, p[1], p[2]))

\* QueryMsg::Games { host, guest }: the store is read through Deps; resp
\* records only whether the query returned a view or the NotFound of the load
QueryGames(host, guest) ==
    /\ resp' = IF query_games(GAMES, host, guest) = <<>>
               THEN NotFound
               ELSE Result("Ok", "games", host, guest, "", <<>>)
    /\ UNCHANGED <<GAMES, engine>>

\* QueryMsg::AllGamesList {}
QueryAllGamesList ==
    /\ resp' = Result("Ok", "all_games_list", "", "", "", <<>>)
    /\ UNCHANGED <<GAMES, engine>>

QueryGamesStep == \E host \in Identity, guest \in Identity : QueryGames(host, guest)

NextPairs ==
    \/ InvitePair
    \/ AcceptStep(RoundLimit)
    \/ RejectStep
    \/ PlayStep(0..PairCell)
    \/ QueryGamesStep
    \/ QueryAllGamesList

SpecPairs == Init /\ [][NextPairs]_vars

(***************************************************************************)
(* C1. Mutual exclusion: in every reachable state no stored session has    *)
(* pending_invition = true while its current round is Some.                *)
(***************************************************************************)
C1_MutualExclusion ==
    \A k \in Keys : ~(GAMES[k].pending_invition /\ GAMES[k].current # NoGame)

\* a session is in its second round: it was invited, accepted, played to the
\* end, invited and accepted again
C1_Witness ==
    \E k \in Keys :
        /\ Len(GAMES[k].completed) >= 1
        /\ GAMES[k].current # NoGame
        /\ ~GAMES[k].pending_invition

(***************************************************************************)
(* C2. The host symbol of every session is X or O, never None; no command  *)
(* changes it (nor removes the session); and the guest symbol the query    *)
(* reports is the complement of the host symbol.                           *)
(***************************************************************************)
C2_HostRoleOK ==
    \A k \in Keys :
        LET info == query_games(GAMES, k[1], k[2])[1] IN
        /\ GAMES[k].host \in {X, O}
        /\ info.host_role = GAMES[k].host
        /\ info.guest_role = Complement(info.host_role)

C2_HostKept ==
    \A k \in Keys : k \in DOMAIN GAMES' /\ GAMES'[k].host = GAMES[k].host

C2_HostSymbol == []C2_HostRoleOK /\ [][C2_HostKept]_vars

\* a session whose host plays O has completed a round and was invited again
C2_Witness ==
    \E k \in Keys :
        /\ GAMES[k].host = O
        /\ Len(GAMES[k].completed) >= 1
        /\ GAMES[k].pending_invition

(***************************************************************************)
(* C3. Turn alternation: the symbol a successful Play places is X when the *)
(* round holds an even number of symbols and O when it holds an odd        *)
(* number, so the acting symbols of a round go X, O, X, ... from the empty *)
(* board; and in every round in progress a move of any other symbol (the   *)
(* one that moved last, or None) does not succeed on any cell.             *)
(***************************************************************************)
NextSymbol(board) == IF Stones(board) % 2 = 0 THEN X ELSE O

C3_PlayAlternates ==
    PlayedOk =>
        LET k == <<resp'.host, resp'.guest>>
            c == resp'.cell[1]
            before == GAMES[k].current[1]
            after == IF GAMES'[k].current # NoGame
                     THEN GAMES'[k].current[1]
                     ELSE GAMES'[k].completed[Len(GAMES'[k].completed)]
        IN  /\ At(before.board, c) = None
            /\ At(after.board, c) = NextSymbol(before.board)
            /\ Stones(after.board) = Stones(before.board) + 1

C3_OnlyNextSymbolMoves ==
    \A k \in Keys :
        GAMES[k].current # NoGame =>
            \A player \in Player, index \in 0..MaxCell :
                Game_play(GAMES[k].current[1], player, index).res = GameOk
                    => player = NextSymbol(GAMES[k].current[1].board)

C3_TurnAlternation == [][C3_PlayAlternates]_vars /\ []C3_OnlyNextSymbolMoves

\* four moves into a round, the party that has just moved tries again
C3_Witness ==
    /\ resp.tag = "NotYourTurn"
    /\ \E k \in Keys :
           /\ GAMES[k].current # NoGame
           /\ Stones(GAMES[k].current[1].board) = 4

(***************************************************************************)
(* C4. Append-only history: across every command, successful or failed,    *)
(* every session stays stored, its previous completed sequence is a prefix *)
(* of the new one, and the sequence grows by at most one round.            *)
(***************************************************************************)
C4_HistoryStep ==
    \A k \in Keys :
        /\ k \in DOMAIN GAMES'
        /\ IsPrefix(GAMES[k].completed, GAMES'[k].completed)
        /\ Len(GAMES'[k].completed) <= Len(GAMES[k].completed) + 1

C4_AppendOnly == [][C4_HistoryStep]_vars

\* a session has completed two rounds that ended on different boards
C4_Witness ==
    \E k \in Keys :
        /\ Len(GAMES[k].completed) = 2
        /\ GAMES[k].completed[1] # GAMES[k].completed[2]

(***************************************************************************)
(* C5. A command that fails (NotFound, GameInProgress, NoPendingInvitation,*)
(* NoGameInProgress, NotInvolved, NotYourTurn, InvalidMove) leaves the     *)
(* whole store as it was: no session created, no field changed.            *)
(***************************************************************************)
ErrorTags ==
    {"NotFound", "GameInProgress", "NoPendingInvitation", "NoGameInProgress",
     "NotInvolved", "NotYourTurn", "InvalidMove"}

C5_FailedStep ==
    IsErr(resp') => resp'.tag \in ErrorTags /\ GAMES' = GAMES

C5_FailureKeepsStore == [][C5_FailedStep]_vars

\* in the middle of a round a move names a cell outside the board
C5_Witness ==
    /\ resp = FromGameError(InvalidMove(MaxCell))
    /\ \E k \in Keys :
           /\ GAMES[k].current # NoGame
           /\ Stones(GAMES[k].current[1].board) >= 3

(***************************************************************************)
(* C6. A successful Play places one symbol on an empty cell and toggles    *)
(* the turn; when the round is then terminal (a complete triple or a full  *)
(* board) exactly that round is appended to completed and current becomes  *)
(* None; otherwise current is Some of that round and completed is          *)
(* unchanged. Nothing else of the session and no other session changes.    *)
(***************************************************************************)
C6_PlayStep ==
    PlayedOk =>
        LET k == <<resp'.host, resp'.guest>>
            c == resp'.cell[1]
            old == GAMES[k]
            before == old.current[1]
        IN  /\ At(before.board, c) = None
            /\ \E symbol \in {X, O} :
                 LET round == [board |-> [before.board EXCEPT ![c + 1] = symbol],
                               turn |-> Complement(symbol)]
                 IN  GAMES' = [GAMES EXCEPT ![k] =
                                  IF Terminal(round.board)
                                  THEN [old EXCEPT !.completed = Append(@, round),
                                                   !.current = NoGame]
                                  ELSE [old EXCEPT !.current = <<round>>]]

C6_TerminalPlay == [][C6_PlayStep]_vars

\* a Play has just filled the board without completing a triple
C6_Witness ==
    /\ resp.tag = "Ok" /\ resp.action = "play"
    /\ LET k == <<resp.host, resp.guest>> IN
       /\ GAMES[k].current = NoGame
       /\ Len(GAMES[k].completed) = 1
       /\ Stones(GAMES[k].completed[1].board) = BOARD_LEN
       /\ ~HasTriple(GAMES[k].completed[1].board)

(***************************************************************************)
(* C7. Invite(caller, guest) on an existing session (caller, guest) whose  *)
(* current round is Some fails with GameInProgress carrying host = caller  *)
(* and guest = guest, and stores nothing.                                  *)
(***************************************************************************)
C7_InviteStepFails ==
    \A sender \in Identity, guest \in Identity :
        ( /\ <<sender, guest>> \in Keys
          /\ GAMES[<<sender, guest>>].current # NoGame
          /\ Invite(sender, guest) )
        => /\ resp' = GameInProgress(sender, guest)
           /\ GAMES' = GAMES

C7_InviteInProgress == [][C7_InviteStepFails]_vars

\* the host invites again in the middle of a round
C7_Witness ==
    /\ resp = GameInProgress("host", "guest")
    /\ <<"host", "guest">> \in Keys
    /\ GAMES[<<"host", "guest">>].current # NoGame
    /\ Stones(GAMES[<<"host", "guest">>].current[1].board) >= 2

(***************************************************************************)
(* C8. Invite on an existing session with no round in progress succeeds    *)
(* and changes nothing but pending_invition, which becomes (or stays)      *)
(* true: host symbol, current (None) and completed are kept.               *)
(***************************************************************************)
C8_ReinviteStep ==
    \A sender \in Identity, guest \in Identity :
        ( /\ <<sender, guest>> \in Keys
          /\ GAMES[<<sender, guest>>].current = NoGame
          /\ Invite(sender, guest) )
        => /\ resp' = Response("invite", sender, guest, <<>>)
           /\ GAMES' = [GAMES EXCEPT ![<<sender, guest>>].pending_invition = TRUE]

C8_Reinvite == [][C8_ReinviteStep]_vars

\* the host has invited again after a completed round
C8_Witness ==
    /\ resp = Response("invite", "host", "guest", <<>>)
    /\ <<"host", "guest">> \in Keys
    /\ GAMES[<<"host", "guest">>].pending_invition
    /\ Len(GAMES[<<"host", "guest">>].completed) >= 1

(***************************************************************************)
(* C9. Invite(caller, guest) when no session is stored under (caller,      *)
(* guest) succeeds and stores, under exactly that key, a session with      *)
(* pending_invition = true, no current round, no completed round and a     *)
(* host symbol that is X or O; every other session is kept as it was.      *)
(***************************************************************************)
C9_FirstInviteStep ==
    \A sender \in Identity, guest \in Identity :
        ( <<sender, guest>> \notin Keys /\ Invite(sender, guest) )
        => /\ resp' = Response("invite", sender, guest, <<>>)
           /\ DOMAIN GAMES' = Keys \cup {<<sender, guest>>}
           /\ \A k \in Keys : GAMES'[k] = GAMES[k]
           /\ GAMES'[<<sender, guest>>].pending_invition = TRUE
           /\ GAMES'[<<sender, guest>>].current = NoGame
           /\ GAMES'[<<sender, guest>>].completed = <<>>
           /\ GAMES'[<<sender, guest>>].host \in {X, O}

\* in every reachable store, the handler accepts an Invite for every absent pair
C9_NeverRefused ==
    \A sender \in Identity, guest \in Identity :
        <<sender, guest>> \notin Keys =>
            ~IsErr(exec_invite(GAMES, sender, guest).res)

C9_FirstInvite == [][C9_FirstInviteStep]_vars /\ []C9_NeverRefused

\* `sender` has just invited `guest` for the first time
C9_Witness ==
    /\ resp = Response("invite", "sender", "guest", <<>>)
    /\ <<"sender", "guest">> \in Keys
    /\ GAMES[<<"sender", "guest">>] = MkGames(TRUE, O, NoGame, <<>>)

(***************************************************************************)
(* C10. Accept(caller, host) on a session (host, caller) with a pending    *)
(* invitation succeeds, sets pending_invition to false and current to Some *)
(* of a round with nine empty cells and X to move, and keeps the host      *)
(* symbol, completed and every other session.                              *)
(***************************************************************************)
C10_AcceptStep ==
    \A sender \in Identity, host \in Identity :
        ( /\ <<host, sender>> \in Keys
          /\ GAMES[<<host, sender>>].pending_invition
          /\ Accept(sender, host, MaxRounds) )
        => /\ resp' = Response("accept invitation", host, sender, <<>>)
           /\ GAMES' = [GAMES EXCEPT ![<<host, sender>>] =
                           MkGames(FALSE, @.host, <<EmptyRound>>, @.completed)]

C10_Accept == [][C10_AcceptStep]_vars

\* a second round has just been accepted
C10_Witness ==
    /\ resp = Response("accept invitation", "host", "guest", <<>>)
    /\ <<"host", "guest">> \in Keys
    /\ GAMES[<<"host", "guest">>].current = <<EmptyRound>>
    /\ Len(GAMES[<<"host", "guest">>].completed) >= 1

(***************************************************************************)
(* C11. On a stored session whose pending_invition is false, Accept and    *)
(* Reject by the guest both fail with NoPendingInvitation carrying the     *)
(* named host and the caller as guest, and store nothing: after a Reject,  *)
(* during a round, and after a completed round.                            *)
(***************************************************************************)
C11_NoPendingInvitation ==
    \A sender \in Identity, host \in Identity :
        ( <<host, sender>> \in Keys /\ ~GAMES[<<host, sender>>].pending_invition )
        => /\ exec_accept(GAMES, sender, host)
                = Out(GAMES, NoPendingInvitation(host, sender))
           /\ exec_reject(GAMES, sender, host)
                = Out(GAMES, NoPendingInvitation(host, sender))

\* the guest answers an invitation that was never renewed after a completed round
C11_Witness ==
    /\ resp = NoPendingInvitation("host", "guest")
    /\ <<"host", "guest">> \in Keys
    /\ ~GAMES[<<"host", "guest">>].pending_invition
    /\ GAMES[<<"host", "guest">>].current = NoGame
    /\ Len(GAMES[<<"host", "guest">>].completed) >= 1

(***************************************************************************)
(* C12. Reject(caller, host) on a session (host, caller) with a pending    *)
(* invitation succeeds and changes nothing but pending_invition, which     *)
(* becomes false: current stays None, and the host symbol, completed and   *)
(* every other session are kept.                                           *)
(***************************************************************************)
C12_RejectStep ==
    \A sender \in Identity, host \in Identity :
        ( /\ <<host, sender>> \in Keys
          /\ GAMES[<<host, sender>>].pending_invition
          /\ Reject(sender, host) )
        => /\ resp' = Response("reject invitation", host, sender, <<>>)
           /\ GAMES' = [GAMES EXCEPT ![<<host, sender>>].pending_invition = FALSE]
           /\ GAMES'[<<host, sender>>].current = NoGame

C12_Reject == [][C12_RejectStep]_vars

\* the guest has rejected an invitation that followed a completed round
C12_Witness ==
    /\ resp = Response("reject invitation", "host", "guest", <<>>)
    /\ <<"host", "guest">> \in Keys
    /\ ~GAMES[<<"host", "guest">>].pending_invition
    /\ GAMES[<<"host", "guest">>].current = NoGame
    /\ Len(GAMES[<<"host", "guest">>].completed) >= 1

(***************************************************************************)
(* C13. Play(caller, host, guest, cell) on a session with an active round: *)
(* a caller that is neither host nor guest fails with NotInvolved naming   *)
(* host, guest and the caller, and the store is kept; when the call        *)
(* succeeds, exactly the cell played changes, from empty to the host       *)
(* symbol if caller = host, and to the complement of the host symbol if    *)
(* the caller is the guest and not the host.                               *)
(***************************************************************************)
C13_RoleResolution ==
    \A sender \in Identity, host \in Identity, guest \in Identity, cell \in 0..MaxCell :
        ( <<host, guest>> \in Keys /\ GAMES[<<host, guest>>].current # NoGame )
        => LET games  == GAMES[<<host, guest>>]
               out    == exec_play(GAMES, sender, host, guest, cell)
               after  == out.store[<<host, guest>>]
               round  == IF after.current = NoGame
                         THEN after.completed[Len(after.completed)]
                         ELSE after.current[1]
               symbol == IF sender = host THEN games.host ELSE Complement(games.host)
           IN  /\ sender \notin {host, guest}
                      => out = Out(GAMES, NotInvolved(host, guest, sender))
               /\ out.res.tag = "NotInvolved" => sender \notin {host, guest}
               /\ ~IsErr(out.res)
                      => /\ sender \in {host, guest}
                         /\ At(games.current[1].board, cell) = None
                         /\ round.board = [games.current[1].board EXCEPT ![cell + 1] = symbol]

\* host "sender" plays O and guest "guest" plays X; both have moved, and the
\* last call was a successful Play
C13_Witness ==
    /\ resp.tag = "Ok" /\ resp.action = "play"
    /\ <<"sender", "guest">> \in Keys
    /\ GAMES[<<"sender", "guest">>].host = O
    /\ GAMES[<<"sender", "guest">>].current # NoGame
    /\ Stones(GAMES[<<"sender", "guest">>].current[1].board) = 2

(***************************************************************************)
(* C14. On an active round, a Play by the party whose symbol is not the    *)
(* round's turn fails with NotYourTurn and keeps the store, for every cell *)
(* index: empty, occupied, or the out-of-range index 9.  In particular,    *)
(* after a successful Play that leaves the round active, every Play by the *)
(* same caller on that session fails with NotYourTurn.                     *)
(***************************************************************************)
C14_WrongTurn ==
    \A sender \in Identity, host \in Identity, guest \in Identity, cell \in 0..MaxCell :
        ( /\ <<host, guest>> \in Keys
          /\ GAMES[<<host, guest>>].current # NoGame
          /\ sender \in {host, guest}
          /\ GAMES[<<host, guest>>].current[1].turn
                 # (IF sender = host THEN GAMES[<<host, guest>>].host
                                     ELSE Complement(GAMES[<<host, guest>>].host)) )
        => exec_play(GAMES, sender, host, guest, cell)
               = Out(GAMES, FromGameError(NotYourTurn))

C14_MoverStep ==
    PlayedOk =>
        LET host  == resp'.host
            guest == resp'.guest
        IN  GAMES'[<<host, guest>>].current # NoGame
            => \A sender \in {host, guest} :
                   \* sender is the party whose Play made this step
                   exec_play(GAMES, sender, host, guest, resp'.cell[1]) = Out(GAMES', resp')
                   => \A again \in 0..MaxCell :
                          exec_play(GAMES', sender, host, guest, again)
                              = Out(GAMES', FromGameError(NotYourTurn))

C14_NotYourTurn == []C14_WrongTurn /\ [][C14_MoverStep]_vars

\* the party that opened the round is refused with one stone on the board
C14_Witness ==
    /\ resp = FromGameError(NotYourTurn)
    /\ <<"host", "guest">> \in Keys
    /\ GAMES[<<"host", "guest">>].current # NoGame
    /\ Stones(GAMES[<<"host", "guest">>].current[1].board) = 1

(***************************************************************************)
(* C15. On an active round, a Play by the party whose symbol is on turn    *)
(* fails with InvalidMove carrying the submitted index, and keeps the      *)
(* store, when the index is 9 or greater or the cell is occupied; it       *)
(* succeeds for every index 0..8 whose cell is empty.  The engine function *)
(* behaves the same on the stored round.                                   *)
(***************************************************************************)
C15_IllegalCell ==
    \A sender \in Identity, host \in Identity, guest \in Identity,
       cell \in 0..(MaxCell + 1) :
        ( /\ <<host, guest>> \in Keys
          /\ GAMES[<<host, guest>>].current # NoGame
          /\ sender \in {host, guest}
          /\ GAMES[<<host, guest>>].current[1].turn
                 = (IF sender = host THEN GAMES[<<host, guest>>].host
                                     ELSE Complement(GAMES[<<host, guest>>].host)) )
        => LET game == GAMES[<<host, guest>>].current[1]
               out  == exec_play(GAMES, sender, host, guest, cell)
               bad  == cell >= 9 \/ game.board[cell + 1] # None
           IN  /\ bad => /\ out = Out(GAMES, FromGameError(InvalidMove(cell)))
                         /\ Game_play(game, game.turn, cell)
                                = [res |-> InvalidMove(cell), self |-> game]
               /\ ~bad => /\ out.res = Response("play", host, guest, <<cell>>)
                          /\ Game_play(game, game.turn, cell).res = GameOk

\* the party on turn has just been refused an occupied cell of the board
C15_Witness ==
    /\ resp.tag = "InvalidMove"
    /\ resp.cell[1] < 9
    /\ \E k \in Keys :
           /\ GAMES[k].current # NoGame
           /\ At(GAMES[k].current[1].board, resp.cell[1]) # None

(***************************************************************************)
(* C16. The order of the checks of Play: an absent session gives NotFound; *)
(* a stored session without an active round gives NoGameInProgress for     *)
(* every caller, involved or not; with an active round a caller that is    *)
(* neither host nor guest gives NotInvolved; and NotYourTurn or            *)
(* InvalidMove is answered only for a stored session with an active round  *)
(* and a caller that is its host or its guest.  The store is kept in all   *)
(* these cases.                                                            *)
(***************************************************************************)
C16_CheckOrder ==
    \A sender \in Identity, host \in Identity, guest \in Identity, cell \in 0..MaxCell :
        LET key == <<host, guest>>
            out == exec_play(GAMES, sender, host, guest, cell)
        IN  /\ key \notin Keys => out = Out(GAMES, NotFound)
            /\ ( key \in Keys /\ GAMES[key].current = NoGame )
                   => out = Out(GAMES, NoGameInProgress(host, guest))
            /\ ( key \in Keys /\ GAMES[key].current # NoGame /\ sender \notin {host, guest} )
                   => out = Out(GAMES, NotInvolved(host, guest, sender))
            /\ out.res.tag \in {"NotYourTurn", "InvalidMove"}
                   => /\ key \in Keys
                      /\ GAMES[key].current # NoGame
                      /\ sender \in {host, guest}

\* a Play was refused on a pending session that has never had a round
C16_Witness ==
    /\ resp = NoGameInProgress("host", "guest")
    /\ <<"host", "guest">> \in Keys
    /\ GAMES[<<"host", "guest">>].pending_invition
    /\ GAMES[<<"host", "guest">>].current = NoGame
    /\ GAMES[<<"host", "guest">>].completed = <<>>

(***************************************************************************)
(* C17. A session is stored under (h, g) exactly when an earlier Invite by *)
(* h naming g has succeeded.  Step by step: no command removes a stored    *)
(* key; a key that appears in a step appears in the step of a successful   *)
(* Invite by its first component naming its second; and after a            *)
(* successful Invite by h naming g the key (h, g) is stored.  In every     *)
(* state, Accept, Reject, Play and the games query on an absent key answer *)
(* NotFound and leave the store as it is.                                  *)
(***************************************************************************)
C17_KeysStep ==
    /\ Keys \subseteq DOMAIN GAMES'
    /\ \A k \in (DOMAIN GAMES') \ Keys : resp' = Response("invite", k[1], k[2], <<>>)
    /\ ( resp'.tag = "Ok" /\ resp'.action = "invite" )
           => <<resp'.host, resp'.guest>> \in DOMAIN GAMES'

C17_AbsentKey ==
    \A h \in Identity, g \in Identity :
        <<h, g>> \notin Keys
        => /\ exec_accept(GAMES, g, h) = Out(GAMES, NotFound)
           /\ exec_reject(GAMES, g, h) = Out(GAMES, NotFound)
           /\ \A sender \in Identity, cell \in 0..MaxCell :
                  exec_play(GAMES, sender, h, g, cell) = Out(GAMES, NotFound)
           /\ query_games(GAMES, h, g) = <<>>

C17_SessionExistence == [][C17_KeysStep]_vars /\ []C17_AbsentKey

\* a command on an absent key was refused while another session is stored
C17_Witness ==
    /\ resp = NotFound
    /\ Keys = {<<"sender", "guest">>}
    /\ GAMES[<<"sender", "guest">>].current # NoGame

(***************************************************************************)
(* C18. winner against the reference definition, on every board of nine    *)
(* cells over {X, O, None}.                                                *)
(*                                                                         *)
(* As stated: winner returns Some(s) exactly when one of the eight triples *)
(* is fully occupied by s, and None when no triple is fully occupied.      *)
(* C18_AsStated is that statement; it fails on a board where both symbols  *)
(* occupy a triple, since one value is returned.                           *)
(*                                                                         *)
(* Amended (C18_Winner): winner returns Some(s) only if s fully occupies a *)
(* triple; it returns None exactly when no triple is fully occupied; when  *)
(* a single symbol occupies triples it returns that symbol; and when both  *)
(* do, it returns the symbol of the occupied triple that holds the lowest  *)
(* cell, which is the first one in the order rows, columns, diagonals.     *)
(***************************************************************************)
C18_AsStated ==
    engine.op = "judge" =>
        LET board == engine.game.board
            Holds(s) == \E t \in Triples : \A i \in t : At(board, i) = s
        IN  /\ \A s \in {X, O} : (engine.winner = <<s>>) <=> Holds(s)
            /\ ( ~Holds(X) /\ ~Holds(O) ) => engine.winner = <<>>

C18_Winner ==
    engine.op = "judge" =>
        LET board == engine.game.board
            Holds(s) == \E t \in Triples : \A i \in t : At(board, i) = s
            Held == {t \in Triples : \E s \in {X, O} : \A i \in t : At(board, i) = s}
            Low(t) == CHOOSE i \in t : \A j \in t : i <= j
        IN  /\ \A s \in {X, O} : engine.winner = <<s>> => Holds(s)
            /\ (engine.winner = <<>>) <=> ( ~Holds(X) /\ ~Holds(O) )
            /\ \A s \in {X, O} :
                   ( Holds(s) /\ ~Holds(Complement(s)) ) => engine.winner = <<s>>
            /\ \A t \in Held :
                   ( \A u \in Held : Low(t) <= Low(u) )
                   => engine.winner = <<At(board, Low(t))>>

\* a judged board on which X holds the middle row and O the top row
C18_Witness ==
    /\ engine.op = "judge"
    /\ \A i \in {0, 1, 2} : At(engine.game.board, i) = O
    /\ \A i \in {3, 4, 5} : At(engine.game.board, i) = X
    /\ engine.winner = <<O>>

(***************************************************************************)
(* C19. is_over(round) is true if and only if winner(round) is Some or all *)
(* nine cells are occupied, on every board; so it is false on a new round  *)
(* and on every board with an empty cell and no fully occupied triple.     *)
(***************************************************************************)
C19_IsOver ==
    /\ ~Game_is_over(Game_new)
    /\ engine.op = "judge" =>
           LET board == engine.game.board
               full  == \A i \in 0..8 : At(board, i) # None
           IN  /\ engine.over <=> ( engine.winner # <<>> \/ full )
               /\ ( ~full /\ ~HasTriple(board) ) => ~engine.over
               /\ ( full \/ HasTriple(board) ) => engine.over

\* a judged drawn board: full, no triple, no winner, and over
C19_Witness ==
    /\ engine.op = "judge"
    /\ Stones(engine.game.board) = 9
    /\ ~HasTriple(engine.game.board)
    /\ engine.winner = <<>>
    /\ engine.over

(***************************************************************************)
(* C20. For every round obtained from Game::new by successful Game::play   *)
(* calls, at most one of the two symbols fully occupies a triple, so that  *)
(* every fully occupied triple carries the symbol winner returns.          *)
(* Game::play never looks at is_over: after X has won with 0, 1, 2 against *)
(* O on 3, 4, it is O's turn and play(O, 5) succeeds, completing 3-4-5.    *)
(***************************************************************************)
C20_OneWinner ==
    LET board == engine.game.board
        Holds(s) == \E t \in Triples : \A i \in t : At(board, i) = s
    IN  /\ ~( Holds(X) /\ Holds(O) )
        /\ \A t \in Triples, s \in {X, O} :
               ( \A i \in t : At(board, i) = s ) => Game_winner(engine.game) = <<s>>

\* C20 restricted to the rounds on which no move followed the end of the
\* round, which are the rounds exec::play can produce
C20_UpToFirstEnd == ~engine.overrun => C20_OneWinner

(***************************************************************************)
(* C21. The games query on (host, guest) fails with NotFound when no       *)
(* session is stored under that ordered pair, also when one is stored      *)
(* under (guest, host); otherwise it returns the queried host and guest,   *)
(* the stored host symbol, its complement as the guest symbol, and the     *)
(* stored pending_invition, current and completed as they are.  A query    *)
(* step leaves the store as it is.                                         *)
(***************************************************************************)
C21_View ==
    \A host \in Identity, guest \in Identity :
        LET view == query_games(GAMES, host, guest) IN
        /\ <<host, guest>> \notin Keys => view = <<>>
        /\ <<host, guest>> \in Keys
               => /\ Len(view) = 1
                  /\ view[1].host = host
                  /\ view[1].guest = guest
                  /\ view[1].host_role = GAMES[<<host, guest>>].host
                  /\ view[1].host_role \in {X, O}
                  /\ view[1].guest_role = Complement(GAMES[<<host, guest>>].host)
                  /\ view[1].pending_invitation = GAMES[<<host, guest>>].pending_invition
                  /\ view[1].current_game = GAMES[<<host, guest>>].current
                  /\ view[1].completed_games = GAMES[<<host, guest>>].completed

C21_QueryStep ==
    \A host \in Identity, guest \in Identity :
        QueryGames(host, guest)
        => /\ GAMES' = GAMES
           /\ (resp' = NotFound) <=> (<<host, guest>> \notin Keys)

C21_GetSession == []C21_View /\ [][C21_QueryStep]_vars

\* the query on (guest, host) has answered NotFound while (host, guest) is
\* stored with an active round and (guest, host) is not stored
C21_Witness ==
    /\ resp = NotFound
    /\ <<"host", "guest">> \in Keys
    /\ <<"guest", "host">> \notin Keys
    /\ GAMES[<<"host", "guest">>].current # NoGame
    /\ Stones(GAMES[<<"host", "guest">>].current[1].board) = 2

(***************************************************************************)
(* C22. all_games_list returns one view for each stored session, none      *)
(* missing and none twice (the empty list on the empty store), each the    *)
(* view the games query gives for its key, in ascending order.             *)
(*                                                                         *)
(* As stated (C22_AsStated) the order is ascending by host identity, then  *)
(* by guest identity.  The scan follows the storage keys, in which the     *)
(* host is preceded by its length: "host" (4 bytes) comes before "guest"   *)
(* (5 bytes), though "guest" < "host" as strings.                          *)
(*                                                                         *)
(* Amended (C22_List): the order is ascending by the length of the host    *)
(* identity, then by host identity, then by guest identity; it is the      *)
(* order by host and then guest among hosts of equal length.               *)
(***************************************************************************)
C22_AsStated ==
    LET list == all_games_list(GAMES)
        Less(a, b) == BytesLess(Bytes(a), Bytes(b))
    IN  /\ Len(list) = Cardinality(Keys)
        /\ \A k \in Keys :
               \E i \in 1..Len(list) : <<list[i]>> = query_games(GAMES, k[1], k[2])
        /\ \A i \in 1..Len(list), j \in 1..Len(list) :
               i < j => \/ Less(list[i].host, list[j].host)
                        \/ /\ list[i].host = list[j].host
                           /\ Less(list[i].guest, list[j].guest)

C22_List ==
    LET list == all_games_list(GAMES)
        Less(a, b) == BytesLess(Bytes(a), Bytes(b))
        Size(a) == Len(Bytes(a))
    IN  /\ Len(list) = Cardinality(Keys)
        /\ GAMES = EmptyStore => list = <<>>
        /\ \A k \in Keys :
               \E i \in 1..Len(list) : <<list[i]>> = query_games(GAMES, k[1], k[2])
        /\ \A i \in 1..Len(list), j \in 1..Len(list) :
               i < j => \/ Size(list[i].host) < Size(list[j].host)
                        \/ /\ Size(list[i].host) = Size(list[j].host)
                           /\ Less(list[i].host, list[j].host)
                        \/ /\ list[i].host = list[j].host
                           /\ Less(list[i].guest, list[j].guest)

\* the list has been queried with the three sessions stored: two of host
\* "host" and one of the longer host "guest"
C22_Witness ==
    /\ resp.action = "all_games_list"
    /\ Keys = PairKeys
    /\ Len(all_games_list(GAMES)) = 3
    /\ all_games_list(GAMES)[3].host = "guest"

(***************************************************************************)
(* C23. Sessions are keyed by the ordered pair: every command addressed to *)
(* one key leaves the record of every other stored key, the reversed pair  *)
(* included, as it is; and (A, B) and (B, A) can both be stored with an    *)
(* active round each (C23_Witness).                                        *)
(***************************************************************************)
C23_OtherKeysKept ==
    \A sender \in Identity, other \in Identity :
        /\ \A j \in Keys \ {<<sender, other>>} :
               exec_invite(GAMES, sender, other).store[j] = GAMES[j]
        /\ \A j \in Keys \ {<<other, sender>>} :
               /\ exec_accept(GAMES, sender, other).store[j] = GAMES[j]
               /\ exec_reject(GAMES, sender, other).store[j] = GAMES[j]
        /\ \A caller \in Identity, cell \in 0..MaxCell :
               \A j \in Keys \ {<<sender, other>>} :
                   exec_play(GAMES, caller, sender, other, cell).store[j] = GAMES[j]

C23_FrameStep ==
    \A k \in Keys :
        GAMES'[k] # GAMES[k] => /\ resp'.tag = "Ok"
                                /\ k = <<resp'.host, resp'.guest>>

C23_OrderedKeys == []C23_OtherKeysKept /\ [][C23_FrameStep]_vars

\* (host, guest) and (guest, host) both have an active round, on different
\* boards, and the last command was a successful Play on (guest, host)
C23_Witness ==
    /\ resp = Response("play", "guest", "host", <<1>>)
    /\ <<"host", "guest">> \in Keys
    /\ <<"guest", "host">> \in Keys
    /\ GAMES[<<"host", "guest">>].current # NoGame
    /\ GAMES[<<"guest", "host">>].current # NoGame
    /\ Stones(GAMES[<<"host", "guest">>].current[1].board) = 0
    /\ Stones(GAMES[<<"guest", "host">>].current[1].board) = 2

(***************************************************************************)
(* C24. A successful Invite, Accept, Reject or Play returns one response   *)
(* whose attributes are the action "invite", "accept invitation", "reject  *)
(* invitation" or "play", the host and the guest of the session key (for   *)
(* Accept and Reject the named host and the caller) and, for Play, the     *)
(* cell; a failing command returns an error and no attributes.             *)
(***************************************************************************)
C24_Attributes ==
    \A sender \in Identity, other \in Identity :
        LET invited  == exec_invite(GAMES, sender, other).res
            accepted == exec_accept(GAMES, sender, other).res
            rejected == exec_reject(GAMES, sender, other).res
        IN  /\ IF IsErr(invited) THEN invited.action = ""
               ELSE invited = Response("invite", sender, other, <<>>)
            /\ IF IsErr(accepted) THEN accepted.action = ""
               ELSE accepted = Response("accept invitation", other, sender, <<>>)
            /\ IF IsErr(rejected) THEN rejected.action = ""
               ELSE rejected = Response("reject invitation", other, sender, <<>>)
            /\ \A caller \in Identity, cell \in 0..MaxCell :
                   LET played == exec_play(GAMES, caller, sender, other, cell).res IN
                   IF IsErr(played) THEN played.action = ""
                   ELSE played = Response("play", sender, other, <<cell>>)

C24_EventStep ==
    IF IsErr(resp')
    THEN resp'.action = "" /\ GAMES' = GAMES
    ELSE /\ resp'.action \in {"invite", "accept invitation", "reject invitation", "play"}
         /\ <<resp'.host, resp'.guest>> \in DOMAIN GAMES'
         /\ (resp'.cell # <<>>) <=> (resp'.action = "play")

C24_Events == []C24_Attributes /\ [][C24_EventStep]_vars

\* "guest" has rejected the invitation of "sender": host is the named host
C24_Witness ==
    /\ resp = Response("reject invitation", "sender", "guest", <<>>)
    /\ <<"sender", "guest">> \in Keys
    /\ ~GAMES[<<"sender", "guest">>].pending_invition

(***************************************************************************)
(* C25. In every round stored as the current round of a session, turn is   *)
(* X or O and never None (the same holds of the completed rounds), and     *)
(* Game::play with the symbol None fails on it for every index; so no      *)
(* command stores a current round whose turn is None.                      *)
(***************************************************************************)
C25_TurnNeverNone ==
    \A k \in Keys :
        /\ GAMES[k].current # NoGame
               => /\ GAMES[k].current[1].turn \in {X, O}
                  /\ \A index \in 0..MaxCell :
                         /\ Game_play(GAMES[k].current[1], None, index).res # GameOk
                         /\ Game_play(GAMES[k].current[1], None, index).self
                                = GAMES[k].current[1]
        /\ \A i \in 1..Len(GAMES[k].completed) : GAMES[k].completed[i].turn \in {X, O}

\* three moves into a round of (host, guest): it is O's turn
C25_Witness ==
    /\ resp = Response("play", "host", "guest", <<2>>)
    /\ GAMES[<<"host", "guest">>].current # NoGame
    /\ GAMES[<<"host", "guest">>].current[1].turn = O
    /\ Stones(GAMES[<<"host", "guest">>].current[1].board) = 3

(***************************************************************************)
(* C26. A successful Game::play(symbol, index) changes exactly one cell,   *)
(* board[index], from None to symbol, and sets turn to the complement of   *)
(* symbol (C26_EngineFrame, on every stored round, symbol and index).  A   *)
(* successful Play that leaves the round active changes nothing in its     *)
(* session but the current round, by that one move: pending_invition, the  *)
(* host symbol and completed are kept (C26_SessionStep).                   *)
(***************************************************************************)
C26_EngineFrame ==
    \A k \in Keys :
        GAMES[k].current # NoGame =>
            \A symbol \in Player, index \in 0..MaxCell :
                LET game   == GAMES[k].current[1]
                    played == Game_play(game, symbol, index)
                IN  played.res = GameOk
                    => /\ symbol \in {X, O}
                       /\ {i \in 0..8 : At(played.self.board, i) # At(game.board, i)}
                              = {index}
                       /\ At(game.board, index) = None
                       /\ At(played.self.board, index) = symbol
                       /\ played.self.turn = Complement(symbol)

C26_SessionStep ==
    ( PlayedOk /\ GAMES'[<<resp'.host, resp'.guest>>].current # NoGame )
    => LET k      == <<resp'.host, resp'.guest>>
           before == GAMES[k].current[1]
           after  == GAMES'[k].current[1]
       IN  /\ GAMES'[k].pending_invition = GAMES[k].pending_invition
           /\ GAMES'[k].host = GAMES[k].host
           /\ GAMES'[k].completed = GAMES[k].completed
           /\ {i \in 0..8 : At(after.board, i) # At(before.board, i)} = {resp'.cell[1]}
           /\ At(after.board, resp'.cell[1]) = before.turn
           /\ after.turn = Complement(before.turn)

C26_MoveFrame == []C26_EngineFrame /\ [][C26_SessionStep]_vars

\* the first move of the second round of (host, guest): one round completed
C26_Witness ==
    /\ resp.tag = "Ok" /\ resp.action = "play"
    /\ <<"host", "guest">> \in Keys
    /\ Len(GAMES[<<"host", "guest">>].completed) = 1
    /\ GAMES[<<"host", "guest">>].current # NoGame
    /\ Stones(GAMES[<<"host", "guest">>].current[1].board) = 1

(***************************************************************************)
(* C27. The host symbol is a function of the ordered pair (host, guest)    *)
(* alone.  Compared are two stores: the reachable store, whatever it holds *)
(* and whatever commands led to it, and the fresh store.  An Invite that   *)
(* creates the session of a pair assigns the same host symbol in both, and *)
(* every stored session carries the symbol that the Invite on the fresh    *)
(* store assigns to its pair.                                              *)
(***************************************************************************)
C27_SameSymbol ==
    \A host \in Identity, guest \in Identity :
        LET key   == <<host, guest>>
            fresh == exec_invite(EmptyStore, host, guest).store[key].host
        IN  /\ key \notin Keys => exec_invite(GAMES, host, guest).store[key].host = fresh
            /\ key \in Keys => GAMES[key].host = fresh

\* the session (host, sender) has just been created in a store that held two
\* other sessions, one of them with an active round
C27_Witness ==
    /\ resp = Response("invite", "host", "sender", <<>>)
    /\ Keys = PairKeys
    /\ GAMES[<<"host", "sender">>].pending_invition
    /\ GAMES[<<"guest", "host">>].current # NoGame
    /\ ~GAMES[<<"host", "guest">>].pending_invition

(***************************************************************************)
(* C28. The mapping of the extracted bit to the host symbol.               *)
(*                                                                         *)
(* As stated (C28_AsStated): bit 0 gives X (First) and bit 1 gives O       *)
(* (Second).  get_host_role does the opposite, as its own comment says and *)
(* as the tests expect: the hash of ("host", "guest") starts with the      *)
(* digit 5, the bit is 1, and the host plays X.                            *)
(*                                                                         *)
(* Amended (C28_BitToSymbol): bit 0 gives O (Second) and bit 1 gives X     *)
(* (First), the bit being the low bit of the first character of the hash   *)
(* written in decimal.                                                     *)
(***************************************************************************)
C28_AsStated ==
    \A k \in Keys :
        GAMES[k].host = IF HashString(k[1], k[2])[1] % 2 = 0 THEN X ELSE O

C28_BitToSymbol ==
    /\ \A k \in Keys :
           GAMES[k].host = IF HashString(k[1], k[2])[1] % 2 = 0 THEN O ELSE X
    /\ \A host \in Identity, guest \in Identity :
           <<host, guest>> \notin Keys
           => exec_invite(GAMES, host, guest).store[<<host, guest>>].host
                  = IF HashString(host, guest)[1] % 2 = 0 THEN O ELSE X

\* the pair ("sender", "guest"), whose bit is 0, has started a round: the
\* host plays O
C28_Witness ==
    /\ resp = Response("accept invitation", "sender", "guest", <<>>)
    /\ HashString("sender", "guest")[1] % 2 = 0
    /\ GAMES[<<"sender", "guest">>].host = O
    /\ GAMES[<<"sender", "guest">>].current = Some(Game_new)

(***************************************************************************)
(* C29. In every reachable state the current round of every session is not *)
(* over (no fully occupied triple and at least one empty cell) and every   *)
(* round in completed is over.  Play moves the current round only, so no   *)
(* move is applied through Play to a round that is over.                   *)
(***************************************************************************)
C29_CurrentNotOver ==
    \A k \in Keys :
        /\ GAMES[k].current # NoGame
               => /\ ~HasTriple(GAMES[k].current[1].board)
                  /\ Stones(GAMES[k].current[1].board) < 9
                  /\ ~Game_is_over(GAMES[k].current[1])
        /\ \A i \in 1..Len(GAMES[k].completed) :
               /\ Terminal(GAMES[k].completed[i].board)
               /\ Game_is_over(GAMES[k].completed[i])

\* eight moves into a round that nobody has won
C29_Witness ==
    /\ resp.tag = "Ok" /\ resp.action = "play"
    /\ GAMES[<<resp.host, resp.guest>>].current # NoGame
    /\ Stones(GAMES[<<resp.host, resp.guest>>].current[1].board) = 8

(***************************************************************************)
(* C30. In every round stored in a session, current or completed, the      *)
(* number of X cells minus the number of O cells is 0 or 1, and turn is X  *)
(* exactly when the two numbers are equal and O exactly when X has one     *)
(* more.                                                                   *)
(***************************************************************************)
C30_Counts ==
    \A k \in Keys :
        LET Count(round, symbol) ==
                Cardinality({i \in 0..8 : At(round.board, i) = symbol})
            Balanced(round) ==
                /\ Count(round, X) - Count(round, O) \in {0, 1}
                /\ (round.turn = X) <=> (Count(round, X) = Count(round, O))
                /\ (round.turn = O) <=> (Count(round, X) = Count(round, O) + 1)
        IN  /\ GAMES[k].current # NoGame => Balanced(GAMES[k].current[1])
            /\ \A i \in 1..Len(GAMES[k].completed) : Balanced(GAMES[k].completed[i])

\* a completed round that X won with the ninth stone: five X, four O, turn O
C30_Witness ==
    \E k \in Keys :
        /\ Len(GAMES[k].completed) = 1
        /\ Stones(GAMES[k].completed[1].board) = 9
        /\ HasTriple(GAMES[k].completed[1].board)
        /\ GAMES[k].completed[1].turn = O

(***************************************************************************)
(* C31. When a successful Play completes a round with a winner, the winner *)
(* is the symbol just placed, which is the caller's own symbol; so every   *)
(* completed round with a winner has turn equal to the complement of its   *)
(* winner, and the other symbol holds no triple in it.                     *)
(***************************************************************************)
C31_WinnerIsMover ==
    \A host \in Identity, guest \in Identity :
        <<host, guest>> \in Keys =>
            LET games == GAMES[<<host, guest>>] IN
            /\ \A i \in 1..Len(games.completed) :
                   LET round == games.completed[i]
                       won   == Game_winner(round)
                   IN  won # <<>>
                       => /\ round.turn = Complement(won[1])
                          /\ \A t \in Triples : \E c \in t : At(round.board, c) # round.turn
            /\ games.current # NoGame
                   => \A sender \in Identity, cell \in 0..MaxCell :
                          LET out   == exec_play(GAMES, sender, host, guest, cell)
                              after == out.store[<<host, guest>>]
                              round == after.completed[Len(after.completed)]
                              won   == Game_winner(round)
                          IN  ( ~IsErr(out.res) /\ after.current = NoGame /\ won # <<>> )
                              => /\ sender \in {host, guest}
                                 /\ won[1] = At(round.board, cell)
                                 /\ won[1] = IF sender = host THEN games.host
                                             ELSE Complement(games.host)

\* the guest of (host, guest), who plays O, has just won a round
C31_Witness ==
    /\ resp.tag = "Ok" /\ resp.action = "play"
    /\ <<"host", "guest">> \in Keys
    /\ GAMES[<<"host", "guest">>].host = X
    /\ GAMES[<<"host", "guest">>].current = NoGame
    /\ Len(GAMES[<<"host", "guest">>].completed) = 1
    /\ Game_winner(GAMES[<<"host", "guest">>].completed[1]) = <<O>>

(***************************************************************************)
(* C32. Rounds end by the number of moves.  Every successful Play adds one *)
(* stone to its round; a current round holds at most 8 stones, so a round  *)
(* takes at most 9 successful Plays; and every completed round holds       *)
(* between 5 and 9 stones, so it was completed by its 5th Play at the      *)
(* earliest and by its 9th at the latest.                                  *)
(***************************************************************************)
C32_StoneBounds ==
    \A k \in Keys :
        /\ GAMES[k].current # NoGame => Stones(GAMES[k].current[1].board) \in 0..8
        /\ \A i \in 1..Len(GAMES[k].completed) :
               Stones(GAMES[k].completed[i].board) \in 5..9

C32_PlayAddsStone ==
    PlayedOk =>
        LET k      == <<resp'.host, resp'.guest>>
            before == GAMES[k].current[1]
            after  == IF GAMES'[k].current # NoGame
                      THEN GAMES'[k].current[1]
                      ELSE GAMES'[k].completed[Len(GAMES'[k].completed)]
        IN  /\ At(before.board, resp'.cell[1]) = None
            /\ after.board = [before.board EXCEPT ![resp'.cell[1] + 1] = before.turn]
            /\ GAMES'[k].current = NoGame
                   => Len(GAMES'[k].completed) = Len(GAMES[k].completed) + 1

C32_MoveCount == []C32_StoneBounds /\ [][C32_PlayAddsStone]_vars

\* a round completed by its fifth Play
C32_Witness ==
    /\ resp.tag = "Ok" /\ resp.action = "play"
    /\ GAMES[<<resp.host, resp.guest>>].current = NoGame
    /\ Len(GAMES[<<resp.host, resp.guest>>].completed) = 1
    /\ Stones(GAMES[<<resp.host, resp.guest>>].completed[1].board) = 5

(***************************************************************************)
(* C33. In a session with host # guest and an active round exactly one of  *)
(* the two parties can move: the party whose symbol is the round's turn    *)
(* succeeds on every empty cell, and every Play of the other party fails   *)
(* with NotYourTurn.  On the empty board of a round the party that can     *)
(* move holds X: the guest when the host symbol is O, the host otherwise.  *)
(***************************************************************************)
C33_OneMover ==
    \A host \in Identity, guest \in Identity :
        ( /\ host # guest
          /\ <<host, guest>> \in Keys
          /\ GAMES[<<host, guest>>].current # NoGame )
        => LET games  == GAMES[<<host, guest>>]
               round  == games.current[1]
               mover  == IF round.turn = games.host THEN host ELSE guest
               waiter == IF round.turn = games.host THEN guest ELSE host
           IN  /\ round.turn \in {games.host, Complement(games.host)}
               /\ \A cell \in 0..8 :
                      At(round.board, cell) = None
                      => exec_play(GAMES, mover, host, guest, cell).res
                             = Response("play", host, guest, <<cell>>)
               /\ \A cell \in 0..MaxCell :
                      exec_play(GAMES, waiter, host, guest, cell)
                          = Out(GAMES, FromGameError(NotYourTurn))
               /\ Stones(round.board) = 0
                      => /\ round.turn = X
                         /\ games.host = O => mover = guest
                         /\ games.host = X => mover = host

\* in the session of ("sender", "guest"), whose host plays O, the guest has
\* made the first move of the round
C33_Witness ==
    /\ resp.tag = "Ok" /\ resp.action = "play"
    /\ resp.host = "sender" /\ resp.guest = "guest"
    /\ GAMES[<<"sender", "guest">>].host = O
    /\ GAMES[<<"sender", "guest">>].current # NoGame
    /\ Stones(GAMES[<<"sender", "guest">>].current[1].board) = 1
    /\ GAMES[<<"sender", "guest">>].current[1].turn = O

(***************************************************************************)
(* C34. Every accepted round can be completed: from every reachable state  *)
(* in which a session has an active round, the session a caller opened     *)
(* with itself included, some finite sequence of Play commands of its host *)
(* and guest ends with the round in completed, current None and an Invite  *)
(* for the pair succeeding.                                                *)
(*                                                                         *)
(* CanFinish searches the sequences of at most `moves` successful Plays.   *)
(* In the session of ("guest", "guest") the caller is always resolved to   *)
(* the host symbol: after the first move every Play fails with NotYourTurn *)
(* and every Invite with GameInProgress, so C34_Completable fails there.   *)
(***************************************************************************)
RECURSIVE CanFinish(_, _, _, _)
CanFinish(store, host, guest, moves) ==
    IF store[<<host, guest>>].current = NoGame
    THEN ~IsErr(exec_invite(store, host, guest).res)
    ELSE /\ moves > 0
         /\ \E sender \in {host, guest}, cell \in 0..8 :
                LET out == exec_play(store, sender, host, guest, cell) IN
                ~IsErr(out.res) /\ CanFinish(out.store, host, guest, moves - 1)

C34_Completable ==
    \A k \in Keys :
        GAMES[k].current # NoGame => CanFinish(GAMES, k[1], k[2], 9)

\* C34 for the sessions of two distinct parties
C34_DistinctParties ==
    \A k \in Keys :
        ( GAMES[k].current # NoGame /\ k[1] # k[2] ) => CanFinish(GAMES, k[1], k[2], 9)

\* in the session a party opened with itself no Play completes the round
C34_SelfSessionStuck ==
    \A k \in Keys :
        ( GAMES[k].current # NoGame /\ k[1] = k[2] /\ Stones(GAMES[k].current[1].board) = 1 )
        => \A cell \in 0..MaxCell : IsErr(exec_play(GAMES, k[1], k[1], k[2], cell).res)

(***************************************************************************)
(* C35. A pending invitation is consumed once, the commands being atomic   *)
(* steps in any order.  On a session with a pending invitation, of Accept  *)
(* and Reject the one that runs first succeeds and the other, and a repeat *)
(* of the first, fails with NoPendingInvitation; an Invite after the       *)
(* Accept fails with GameInProgress (C35_FirstWins).  A successful Accept  *)
(* or Reject needs pending_invition and clears it, and only a successful   *)
(* Invite sets it, so that between two successful Invites of a pair at     *)
(* most one Accept or Reject succeeds (C35_ConsumeStep).                   *)
(***************************************************************************)
C35_FirstWins ==
    \A host \in Identity, guest \in Identity :
        ( <<host, guest>> \in Keys /\ GAMES[<<host, guest>>].pending_invition )
        => LET accepted == exec_accept(GAMES, guest, host)
               rejected == exec_reject(GAMES, guest, host)
               refused(store) == Out(store, NoPendingInvitation(host, guest))
           IN  /\ accepted.res = Response("accept invitation", host, guest, <<>>)
               /\ rejected.res = Response("reject invitation", host, guest, <<>>)
               /\ exec_reject(accepted.store, guest, host) = refused(accepted.store)
               /\ exec_accept(accepted.store, guest, host) = refused(accepted.store)
               /\ exec_accept(rejected.store, guest, host) = refused(rejected.store)
               /\ exec_reject(rejected.store, guest, host) = refused(rejected.store)
               /\ exec_invite(accepted.store, host, guest)
                      = Out(accepted.store, GameInProgress(host, guest))

C35_ConsumeStep ==
    /\ ( resp'.tag = "Ok" /\ resp'.action \in {"accept invitation", "reject invitation"} )
           => /\ GAMES[<<resp'.host, resp'.guest>>].pending_invition
              /\ ~GAMES'[<<resp'.host, resp'.guest>>].pending_invition
    /\ \A k \in Keys :
           ( ~GAMES[k].pending_invition /\ GAMES'[k].pending_invition )
           => resp' = Response("invite", k[1], k[2], <<>>)

C35_ConsumedOnce == []C35_FirstWins /\ [][C35_ConsumeStep]_vars

\* the Reject of "guest" came after its Accept of the invitation of "sender"
C35_Witness ==
    /\ resp = NoPendingInvitation("sender", "guest")
    /\ <<"sender", "guest">> \in Keys
    /\ GAMES[<<"sender", "guest">>].current = Some(Game_new)
    /\ GAMES[<<"sender", "guest">>].completed = <<>>

(***************************************************************************)
(* C36. Round accounting.  Rounds(store, k) is the number of rounds that   *)
(* the session k holds: the length of completed, plus one when current is  *)
(* Some; it is 0 for a key not stored.  Over every step, Rounds grows by   *)
(* one for the key of a successful Accept and is the same for every other  *)
(* key and in every other step; the accepted round is added as the new     *)
(* current round beside an unchanged history, and the history changes only *)
(* by taking over the round that was current.  Hence Rounds(k) is the      *)
(* number of successful Accepts for k: no accepted round is lost or        *)
(* overwritten, and no round is in the history that was not accepted.      *)
(***************************************************************************)
Rounds(store, k) ==
    IF k \in DOMAIN store
    THEN Len(store[k].completed) + (IF store[k].current # NoGame THEN 1 ELSE 0)
    ELSE 0

C36_AccountStep ==
    \A k \in DOMAIN GAMES' :
        LET accepted == resp' = Response("accept invitation", k[1], k[2], <<>>) IN
        /\ Rounds(GAMES', k) = Rounds(GAMES, k) + (IF accepted THEN 1 ELSE 0)
        /\ accepted => /\ GAMES[k].current = NoGame
                       /\ GAMES'[k].current # NoGame
                       /\ GAMES'[k].completed = GAMES[k].completed
        /\ ( k \in Keys /\ GAMES'[k].completed # GAMES[k].completed )
               => /\ GAMES[k].current # NoGame
                  /\ GAMES'[k].current = NoGame
                  /\ Len(GAMES'[k].completed) = Len(GAMES[k].completed) + 1
                  /\ IsPrefix(GAMES[k].completed, GAMES'[k].completed)

C36_NewSession ==
    \A host \in Identity, guest \in Identity :
        <<host, guest>> \notin Keys
        => Rounds(exec_invite(GAMES, host, guest).store, <<host, guest>>) = 0

C36_RoundAccounting == [][C36_AccountStep]_vars /\ []C36_NewSession

\* the session of ("sender", "guest") has completed its second round
C36_Witness ==
    /\ resp.tag = "Ok" /\ resp.action = "play"
    /\ resp.host = "sender" /\ resp.guest = "guest"
    /\ Rounds(GAMES, <<"sender", "guest">>) = 2
    /\ GAMES[<<"sender", "guest">>].current = NoGame

(***************************************************************************)
(* C37. Authorization by key.  Changed(store, k) says that a call left the *)
(* session k created or different.  An Invite by caller c changes only a   *)
(* session whose host is c; an Accept or a Reject by c changes only the    *)
(* session of the named host whose guest is c, so a session with host #    *)
(* guest is never accepted or rejected by its host or by a third party; a  *)
(* Play changes only the session it names, and only when the caller is its *)
(* host or its guest.                                                      *)
(***************************************************************************)
C37_ByKey ==
    LET Changed(store, k) == k \notin Keys \/ store[k] # GAMES[k] IN
    \A c \in Identity, named \in Identity :
        /\ LET store == exec_invite(GAMES, c, named).store IN
           \A k \in DOMAIN store : Changed(store, k) => k = <<c, named>>
        /\ LET store == exec_accept(GAMES, c, named).store IN
           \A k \in DOMAIN store : Changed(store, k) => k = <<named, c>>
        /\ LET store == exec_reject(GAMES, c, named).store IN
           \A k \in DOMAIN store : Changed(store, k) => k = <<named, c>>
        /\ \A k \in Keys :
               ( k[1] # k[2] /\ c # k[2] )
               => /\ exec_accept(GAMES, c, named).store[k] = GAMES[k]
                  /\ exec_reject(GAMES, c, named).store[k] = GAMES[k]
        /\ \A guest \in Identity, cell \in 0..MaxCell :
               LET store == exec_play(GAMES, c, named, guest, cell).store IN
               \A k \in DOMAIN store :
                   Changed(store, k) => k = <<named, guest>> /\ c \in {named, guest}

\* "sender" has accepted the invitation of "host" while the invitation of
\* "host" to "guest" is still pending and (guest, host) is stored too
C37_Witness ==
    /\ resp = Response("accept invitation", "host", "sender", <<>>)
    /\ Keys = PairKeys
    /\ GAMES[<<"host", "sender">>].current = Some(Game_new)
    /\ GAMES[<<"host", "guest">>].pending_invition

====
